---- MODULE Spec2Model ----
(***************************************************************************)
(* hyperserve: the request dispatcher of class Hyperserve (fetch and its   *)
(* helpers logRequest, handleProxy, serveDirectoryIndex, isValidBasicAuth, *)
(* addCorsHeaders) and the server start-up.                                *)
(*                                                                         *)
(* Header values that the code splits, decodes or case-folds are modelled  *)
(* as sequences of character codes, so that String.split, atob and         *)
(* toLowerCase are computed and not assumed.  Other strings (method,       *)
(* bodies, header names, path segments, targets) are only compared and are *)
(* TLA+ strings.                                                           *)
(***************************************************************************)
EXTENDS Integers, Sequences, FiniteSets, TLC

VARIABLES
    phase,      \* "constructed" | "serving" | "responded" | "failed"
    cfg,        \* the fields of the Hyperserve object (this.*)
    req,        \* the request of the last fetch call
    resp,       \* the Response that call returned
    fx,         \* the calls it made, in order: "upgrade:<result>" (server.upgrade),
                \* "auth", "stat", "readdir", "handleProxy", "upstream"
    stdout,     \* the access log entries it wrote to stdout
    logfile,    \* the access log entries it appended to this.logpath
    stderr,     \* the diagnostics it wrote (console.error)
    sent,       \* the requests it passed to the upstream (global fetch)
    received,   \* what the upstream did with each of them: a response, or a
                \* network failure
    relay,      \* the WebSocket relay sessions, in the order of their upgrades:
                \* per session the client socket (ws), ws.data and the
                \* upstream socket (targetWs)
    launch,     \* how the process was started: the flags of the command line
                \* (Bun.argv) and process.env
    fmt         \* the call of formatSize: byte count, loop variables, result

vars == <<phase, cfg, req, resp, fx, stdout, logfile, stderr, sent, received, relay,
          launch, fmt>>

\* the state of the request dispatcher
httpVars == <<phase, cfg, req, resp, fx, stdout, logfile, stderr, sent, received,
              launch, fmt>>

----------------------------------------------------------------------------
(* Strings as sequences of character codes *)

\* headers.get(name) of an absent header (null), and an array slot that does
\* not exist (undefined)
Null == <<-1>>

Colon == 58
Space == 32
Equals == 61

\* "a".."z" are 97..122, "A".."Z" are 65..90, "0".."9" are 48..57
S_websocket == <<119, 101, 98, 115, 111, 99, 107, 101, 116>>   \* "websocket"
S_WebSocket == <<87, 101, 98, 83, 111, 99, 107, 101, 116>>     \* "WebSocket"
S_h2c       == <<104, 50, 99>>                                  \* "h2c"
S_Basic     == <<66, 97, 115, 105, 99>>                         \* "Basic"

\* String.prototype.toLowerCase on ASCII
ToLowerCase(s) ==
    [i \in 1..Len(s) |-> IF s[i] >= 65 /\ s[i] <= 90 THEN s[i] + 32 ELSE s[i]]

\* index of the first occurrence of the character sep in s, 0 when there is none
RECURSIVE IndexOfFrom(_, _, _)
IndexOfFrom(s, sep, i) ==
    IF i > Len(s) THEN 0
    ELSE IF s[i] = sep THEN i
    ELSE IndexOfFrom(s, sep, i + 1)

\* String.prototype.split(sep) for a one-character separator: the array of the
\* pieces between separators ("" splits to [""])
RECURSIVE Split(_, _)
Split(s, sep) ==
    LET k == IndexOfFrom(s, sep, 1) IN
    IF k = 0 THEN <<s>>
    ELSE <<SubSeq(s, 1, k - 1)>> \o Split(SubSeq(s, k + 1, Len(s)), sep)

\* array[i] with JavaScript's zero-based index: undefined past the end
At(arr, i) == IF i + 1 <= Len(arr) THEN arr[i + 1] ELSE Null

----------------------------------------------------------------------------
(* base64: atob as the runtime implements it (forgiving-base64 decode), and *)
(* the encoding a client applies to "user:pass"                            *)

IsB64Char(c) ==
    \/ c >= 65 /\ c <= 90
    \/ c >= 97 /\ c <= 122
    \/ c >= 48 /\ c <= 57
    \/ c = 43
    \/ c = 47

B64Val(c) ==
    IF c >= 65 /\ c <= 90 THEN c - 65
    ELSE IF c >= 97 /\ c <= 122 THEN c - 71
    ELSE IF c >= 48 /\ c <= 57 THEN c + 4
    ELSE IF c = 43 THEN 62
    ELSE 63

B64Chr(v) ==
    IF v < 26 THEN v + 65
    ELSE IF v < 52 THEN v + 71
    ELSE IF v < 62 THEN v - 4
    ELSE IF v = 62 THEN 43
    ELSE 47

IsAsciiWhitespace(c) == c \in {9, 10, 12, 13, 32}

\* atob, steps 1-2: drop ASCII whitespace, then one or two trailing "=" when
\* the length is a multiple of four
AtobStrip(s) ==
    LET d == SelectSeq(s, LAMBDA c : ~IsAsciiWhitespace(c))
        n == Len(d)
    IN  IF n > 0 /\ n % 4 = 0 /\ d[n] = Equals
        THEN IF d[n - 1] = Equals THEN SubSeq(d, 1, n - 2) ELSE SubSeq(d, 1, n - 1)
        ELSE d

\* atob raises InvalidCharacterError: length 1 mod 4 or a character outside
\* the base64 alphabet
AtobThrows(s) ==
    LET d == AtobStrip(s) IN
    \/ Len(d) % 4 = 1
    \/ \E i \in 1..Len(d) : ~IsB64Char(d[i])

\* atob, decoding step: 6 bits per character, 3 bytes per 4 characters; 12 or
\* 18 left-over bits give 1 or 2 bytes, their low bits discarded
RECURSIVE AtobDecode(_)
AtobDecode(d) ==
    IF Len(d) = 0 THEN <<>>
    ELSE IF Len(d) = 2 THEN
        <<(B64Val(d[1]) * 64 + B64Val(d[2])) \div 16>>
    ELSE IF Len(d) = 3 THEN
        LET n == (B64Val(d[1]) * 4096 + B64Val(d[2]) * 64 + B64Val(d[3])) \div 4
        IN  <<n \div 256, n % 256>>
    ELSE
        LET n == B64Val(d[1]) * 262144 + B64Val(d[2]) * 4096
                 + B64Val(d[3]) * 64 + B64Val(d[4])
        IN  <<n \div 65536, (n \div 256) % 256, n % 256>>
            \o AtobDecode(SubSeq(d, 5, Len(d)))

Atob(s) == AtobDecode(AtobStrip(s))

\* base64 of a byte string, with padding
RECURSIVE Btoa(_)
Btoa(s) ==
    IF Len(s) = 0 THEN <<>>
    ELSE IF Len(s) = 1 THEN
        LET n == s[1] * 16
        IN  <<B64Chr(n \div 64), B64Chr(n % 64), Equals, Equals>>
    ELSE IF Len(s) = 2 THEN
        LET n == (s[1] * 256 + s[2]) * 4
        IN  <<B64Chr(n \div 4096), B64Chr((n \div 64) % 64), B64Chr(n % 64), Equals>>
    ELSE
        LET n == s[1] * 65536 + s[2] * 256 + s[3]
        IN  <<B64Chr(n \div 262144), B64Chr((n \div 4096) % 64),
              B64Chr((n \div 64) % 64), B64Chr(n % 64)>>
            \o Btoa(SubSeq(s, 4, Len(s)))

----------------------------------------------------------------------------
(* Configuration: parseArgs values and the constructor *)

S_empty == <<>>                     \* ""
S_h     == <<104>>                  \* "h"      the allowed host domain
S_h80   == <<104, 58, 56, 48>>      \* "h:80"
S_o     == <<111>>                  \* "o"      another host
S_u     == <<117>>                  \* "u"
S_p     == <<112>>                  \* "p"
S_pq    == <<112, 58, 113>>         \* "p:q"    a password holding ':'

ProxyTarget   == "http://up"
WsProxyTarget == "ws://up"

\* a || b for a string a: the empty string is falsy
OrElse(a, b) == IF a = "" THEN b ELSE a
OrElseChars(a, b) == IF a = <<>> THEN b ELSE a

\* parseArgs defaults
DefaultOptions ==
    [port |-> "3000", baseDir |-> ".", showDir |-> FALSE, autoIndex |-> TRUE,
     cors |-> FALSE, tls |-> FALSE, tlsCert |-> "", tlsKey |-> "",
     noDotfiles |-> FALSE, proxy |-> "", wsproxy |-> "", username |-> S_empty,
     password |-> S_empty, logpath |-> "", userAgent |-> "", host |-> S_empty]

\* the flag name of the command line argv, a set of <<name, value>>, is given
HasFlag(argv, name) == \E f \in argv : f[1] = name

\* parseArgs({args: Bun.argv, options}).values: the value of each flag
\* given, the default of each flag that is not
ParseArgs(argv) ==
    [k \in DOMAIN DefaultOptions |->
        IF HasFlag(argv, k) THEN (CHOOSE f \in argv : f[1] = k)[2]
        ELSE DefaultOptions[k]]

\* the command line that gives each option of o that differs from its
\* default
ArgvFor(o) ==
    {<<k, o[k]>> : k \in {n \in DOMAIN DefaultOptions : o[n] # DefaultOptions[n]}}

\* process.env.PORT and process.env.NODE_PORT ("" when unset)
DefaultEnv == [PORT |-> "", NODE_PORT |-> ""]

\* new Hyperserve(options)
Constructor(options, env) ==
    [port       |-> OrElse(options.port, OrElse(env.PORT, OrElse(env.NODE_PORT, "3000"))),
     baseDir    |-> OrElse(options.baseDir, "."),
     showDir    |-> options.showDir \/ FALSE,
     autoIndex  |-> options.autoIndex \/ TRUE,
     cors       |-> options.cors \/ FALSE,
     tls        |-> options.tls \/ FALSE,
     tlsCert    |-> OrElse(options.tlsCert, ""),
     tlsKey     |-> OrElse(options.tlsKey, ""),
     noDotfiles |-> options.noDotfiles \/ FALSE,
     proxy      |-> OrElse(options.proxy, ""),
     wsproxy    |-> OrElse(options.wsproxy, ""),
     username   |-> OrElseChars(options.username, S_empty),
     password   |-> OrElseChars(options.password, S_empty),
     logpath    |-> OrElse(options.logpath, ""),
     userAgent  |-> OrElse(options.userAgent, ""),
     host       |-> OrElseChars(options.host, S_empty)]

----------------------------------------------------------------------------
(* The file system under the base directory, and path resolution *)

\* the working directory of the process, as path segments; relative paths
\* (the default baseDir is ".") are resolved against it by the fs calls
Cwd == <<"srv">>

\* statSync: what each path is; every other path does not exist
Files ==
    [p \in {<<"srv">>, <<"srv", "a.txt">>, <<"srv", ".hidden">>,
            <<"srv", "docs">>, <<"srv", "docs", "index.html">>,
            <<"srv", "empty">>,
            <<"srv", "odd">>, <<"srv", "odd", "index.html">>,
            <<"srv", "locked">>, <<"srv", "fifo">>, <<"secret">>} |->
        CASE p = <<"srv", "a.txt">>              -> [kind |-> "file", size |-> 5, mtime |-> "t1", type |-> "text/plain"]
          [] p = <<"srv", ".hidden">>            -> [kind |-> "file", size |-> 7, mtime |-> "t2", type |-> "application/octet-stream"]
          [] p = <<"srv", "docs", "index.html">> -> [kind |-> "file", size |-> 9, mtime |-> "t3", type |-> "text/html"]
          [] p = <<"srv", "fifo">>               -> [kind |-> "other", size |-> 0, mtime |-> "t4", type |-> ""]
          [] p = <<"secret">>                    -> [kind |-> "file", size |-> 6, mtime |-> "t5", type |-> "text/plain"]
          [] OTHER                               -> [kind |-> "dir", size |-> 0, mtime |-> "t0", type |-> ""]]

\* directories readdirSync fails on (EACCES)
Unreadable == {<<"srv", "locked">>}

Exists(p) == p \in DOMAIN Files

\* readdirSync(dir): the names in the directory, in directory order
DirOrder == <<".hidden", "a.txt", "docs", "empty", "fifo", "index.html", "locked", "odd">>
ReadDir(dir) == SelectSeq(DirOrder, LAMBDA n : Exists(Append(dir, n)))

\* decodeURIComponent on one segment of url.pathname: "%" alone is malformed
\* (URIError), "%2f" decodes to a separator
DecodeThrows(seg) == seg = "%"
DecodeSegment(seg) ==
    IF seg = "..%2fsecret" THEN <<"..", "secret">> ELSE <<seg>>

RECURSIVE DecodeURIComponent(_)
DecodeURIComponent(pathname) ==
    IF pathname = <<>> THEN <<>>
    ELSE DecodeSegment(Head(pathname)) \o DecodeURIComponent(Tail(pathname))

\* path.normalize: "." dropped, ".." removes the segment before it
RECURSIVE NormalizeFrom(_, _)
NormalizeFrom(done, rest) ==
    IF rest = <<>> THEN done
    ELSE IF Head(rest) = "." \/ Head(rest) = "" THEN NormalizeFrom(done, Tail(rest))
    ELSE IF Head(rest) = ".." THEN
        NormalizeFrom(IF done = <<>> THEN done ELSE SubSeq(done, 1, Len(done) - 1), Tail(rest))
    ELSE NormalizeFrom(Append(done, Head(rest)), Tail(rest))

Normalize(segs) == NormalizeFrom(<<>>, segs)

\* normalize(path.join(baseDir, pathname)), as the fs calls resolve it
ResolvePath(c, pathname) == Normalize(Cwd \o <<c.baseDir>> \o pathname)

----------------------------------------------------------------------------
(* Requests and responses *)

\* new Response(body, {status, headers}); headers are name/value pairs
Response(body, status, headers) ==
    [status |-> status, body |-> body, headers |-> headers]

Text(t) == <<"text", t>>
NullBody == <<"null">>

\* Headers.get(name): the value, "" standing for null
HeaderGet(headers, name) ==
    IF \E h \in headers : h[1] = name
    THEN (CHOOSE h \in headers : h[1] = name)[2]
    ELSE ""

\* Headers.set(name, value)
HeaderSet(headers, name, value) ==
    {h \in headers : h[1] # name} \cup {<<name, value>>}

\* addCorsHeaders(response)
AddCorsHeaders(c, response) ==
    IF ~c.cors THEN response
    ELSE Response(response.body, response.status,
            HeaderSet(HeaderSet(HeaderSet(response.headers,
                "Access-Control-Allow-Origin", "*"),
                "Access-Control-Allow-Methods", "GET, POST, PUT, DELETE, OPTIONS"),
                "Access-Control-Allow-Headers", "Content-Type, Authorization"))

\* isValidBasicAuth(authHeader) raises: atob rejects the second token
IsValidBasicAuthThrows(authHeader) ==
    LET second == At(Split(authHeader, Space), 1)
        base64Credentials == IF second = Null \/ second = <<>> THEN <<>> ELSE second
    IN  AtobThrows(base64Credentials)

\* isValidBasicAuth(authHeader), when it returns
IsValidBasicAuth(c, authHeader) ==
    LET second == At(Split(authHeader, Space), 1)
        base64Credentials == IF second = Null \/ second = <<>> THEN <<>> ELSE second
        credentials == Atob(base64Credentials)
        parts == Split(credentials, Colon)
        username == At(parts, 0)
        password == At(parts, 1)
    IN  username = c.username /\ password = c.password

\* the RequestLog object of logRequest
RequestLog(c, r, response) ==
    [source        |-> "hyperserve",
     host          |-> IF r.host = Null THEN <<>> ELSE r.host,
     method        |-> r.method,
     uri           |-> r.pathname,
     status        |-> response.status,
     resp_body_size |-> OrElse(HeaderGet(response.headers, "Content-Length"), "0"),
     upstream_addr |-> OrElse(c.proxy, "-")]

\* what one run of a piece of fetch leaves behind: the response it returned
\* (or threw = TRUE), the calls made, the log output and the upstream requests
NoResponse == Response(<<"none">>, 0, {})

Outcome(threw, response, calls, out, file, err, up) ==
    [threw |-> threw, resp |-> response, fx |-> calls,
     stdout |-> out, logfile |-> file, stderr |-> err, sent |-> up]

\* logRequest letting the failure of appendFile escape
LogRequest_AppendFatal(c, r, e, response, returned, calls, up) ==
    IF c.logpath # "" /\ ~e.appendOk
    THEN [threw |-> TRUE, resp |-> NoResponse, fx |-> calls,
          stdout |-> <<RequestLog(c, r, response)>>, logfile |-> <<>>,
          stderr |-> <<>>, sent |-> up]
    ELSE [threw |-> FALSE, resp |-> returned, fx |-> calls,
          stdout |-> <<RequestLog(c, r, response)>>,
          logfile |-> IF c.logpath # "" THEN <<RequestLog(c, r, response)>> ELSE <<>>,
          stderr |-> <<>>, sent |-> up]

\* logRequest(req, response, startTime), then the return of `returned`
LogRequest(c, r, e, response, returned, calls, up) ==
    LET log == RequestLog(c, r, response) IN
    Outcome(FALSE, returned, calls, <<log>>,
        IF c.logpath # "" /\ e.appendOk THEN <<log>> ELSE <<>>,
        IF c.logpath # "" /\ ~e.appendOk THEN <<"Failed to write to log file">> ELSE <<>>,
        up)

\* a return that does not pass through logRequest
Return(response, calls) == Outcome(FALSE, response, calls, <<>>, <<>>, <<>>, <<>>)

\* an exception leaving the try block after the calls made so far
Throw(calls) == Outcome(TRUE, NoResponse, calls, <<>>, <<>>, <<>>, <<>>)

----------------------------------------------------------------------------
(* handleProxy and serveDirectoryIndex *)

\* targets new URL(target) rejects (TypeError)
InvalidUrls == {"not a url"}

\* the authority of the upstream URL (targetUrl.host)
UrlHost(target) == IF target = WsProxyTarget \/ target = ProxyTarget THEN "up" ELSE target

\* the upstream request with X-Real-Ip preferred to X-Forwarded-For
ProxyRequest_RealIpFirst(c, r, target) ==
    [target    |-> target,
     pathname  |-> r.pathname,
     search    |-> r.search,
     method    |-> r.method,
     host      |-> UrlHost(target),
     xff       |-> OrElse(r.xrealip, OrElse(r.xff, "unknown")),
     userAgent |-> IF c.userAgent # "" THEN c.userAgent ELSE r.userAgent,
     authorization |-> r.authorization,
     xrealip   |-> r.xrealip,
     upgrade   |-> r.upgrade,
     body      |-> r.body]

\* the upstream request built without the body of the request
ProxyRequest_NoBody(c, r, target) ==
    [target    |-> target,
     pathname  |-> r.pathname,
     search    |-> r.search,
     method    |-> r.method,
     host      |-> UrlHost(target),
     xff       |-> OrElse(r.xff, OrElse(r.xrealip, "unknown")),
     userAgent |-> IF c.userAgent # "" THEN c.userAgent ELSE r.userAgent,
     authorization |-> r.authorization,
     xrealip   |-> r.xrealip,
     upgrade   |-> r.upgrade,
     body      |-> ""]

\* the Request handleProxy builds for the upstream
ProxyRequest(c, r, target) ==
    [target    |-> target,
     pathname  |-> r.pathname,
     search    |-> r.search,
     method    |-> r.method,
     host      |-> UrlHost(target),
     xff       |-> OrElse(r.xff, OrElse(r.xrealip, "unknown")),
     userAgent |-> IF c.userAgent # "" THEN c.userAgent ELSE r.userAgent,
     authorization |-> r.authorization,
     xrealip   |-> r.xrealip,
     upgrade   |-> r.upgrade,
     body      |-> r.body]

\* handleProxy answering a network failure of the upstream call with 404
HandleProxy_FailureIs404(c, r, e, target) ==
    IF target \in InvalidUrls
    THEN [threw |-> TRUE, resp |-> NoResponse, calls |-> <<"handleProxy">>, up |-> <<>>]
    ELSE [threw |-> FALSE,
          resp  |-> IF e.upstream.ok THEN e.upstream.resp
                    ELSE Response(Text("Not Found"), 404, {}),
          calls |-> <<"handleProxy", "upstream">>,
          up    |-> <<ProxyRequest(c, r, target)>>]

\* handleProxy(req, target): [threw, resp, calls, up]
HandleProxy(c, r, e, target) ==
    IF target \in InvalidUrls
    THEN [threw |-> TRUE, resp |-> NoResponse, calls |-> <<"handleProxy">>, up |-> <<>>]
    ELSE [threw |-> FALSE,
          resp  |-> IF e.upstream.ok THEN e.upstream.resp
                    ELSE Response(Text("Proxy Error"), 502, {}),
          calls |-> <<"handleProxy", "upstream">>,
          up    |-> <<ProxyRequest(c, r, target)>>]

\* names starting with "."
DotNames == {".hidden"}

\* serveDirectoryIndex listing every entry, noDotfiles or not
ServeDirectoryIndex_AllEntries(c, dirPath, urlPath) ==
    IF dirPath \in Unreadable
    THEN [resp  |-> Response(Text("Error reading directory"), 500, {}),
          calls |-> <<"readdir">>]
    ELSE LET items == ReadDir(dirPath)
         IN  [resp  |-> Response(<<"listing">> \o items, 200, {<<"Content-Type", "text/html">>}),
              calls |-> <<"readdir">> \o [i \in 1..Len(items) |-> "stat"]]

\* serveDirectoryIndex(dirPath, urlPath): [resp, calls]
ServeDirectoryIndex(c, dirPath, urlPath) ==
    IF dirPath \in Unreadable
    THEN [resp  |-> Response(Text("Error reading directory"), 500, {}),
          calls |-> <<"readdir">>]
    ELSE LET files == ReadDir(dirPath)
             items == SelectSeq(files, LAMBDA file : ~c.noDotfiles \/ file \notin DotNames)
         IN  [resp  |-> Response(<<"listing">> \o items, 200, {<<"Content-Type", "text/html">>}),
              calls |-> <<"readdir">> \o [i \in 1..Len(items) |-> "stat"]]

----------------------------------------------------------------------------
(* fetch *)

\* the preflight response without its Access-Control-Max-Age header
PreflightResponse_NoMaxAge ==
    [status |-> 200, body |-> <<"null">>,
     headers |-> {<<"Access-Control-Allow-Origin", "*">>,
                  <<"Access-Control-Allow-Methods", "GET, POST, PUT, DELETE, OPTIONS">>,
                  <<"Access-Control-Allow-Headers", "Content-Type, Authorization">>}]

\* the preflight response of fetch; new Response(null, {headers}) has the
\* default status 200
PreflightResponse ==
    Response(NullBody, 200,
        {<<"Access-Control-Allow-Origin", "*">>,
         <<"Access-Control-Allow-Methods", "GET, POST, PUT, DELETE, OPTIONS">>,
         <<"Access-Control-Allow-Headers", "Content-Type, Authorization">>,
         <<"Access-Control-Max-Age", "86400">>})

UnauthorizedResponse ==
    Response(Text("Unauthorized"), 401,
        {<<"WWW-Authenticate", "Basic realm=\"Authentication required\"">>})

\* the host check comparing the whole Host header, port included
ReqHost_NoSplit(r) == r.host

\* req.headers.get("host")?.split(":")[0]
ReqHost(r) == IF r.host = Null THEN Null ELSE At(Split(r.host, Colon), 0)

\* the Upgrade header compared without case folding
IsUpgradeRequest_CaseSensitive(c, r) ==
    c.wsproxy # "" /\ r.upgrade # Null /\ r.upgrade = S_websocket

\* this.wsproxy && req.headers.get("upgrade")?.toLowerCase() === "websocket"
IsUpgradeRequest(c, r) ==
    c.wsproxy # "" /\ r.upgrade # Null /\ ToLowerCase(r.upgrade) = S_websocket

\* new Response(Bun.file(filePath)): the file with its type
FileResponse(filePath) ==
    Response(<<"file">> \o filePath, 200, {<<"Content-Type", Files[filePath].type>>})

\* the response of the stat.isFile() branch
StatFileResponse(filePath) ==
    LET stat == Files[filePath]
        mimeType == OrElse(stat.type, "application/octet-stream")
    IN  Response(<<"file">> \o filePath, 200,
            {<<"Content-Type", mimeType>>,
             <<"Content-Length", ToString(stat.size)>>,
             <<"Last-Modified", stat.mtime>>})

\* fetch from `const url = new URL(req.url)` (line 406) to the end of the try
\* block, after the calls made so far
ServeStatic(c, r, e, calls) ==
    IF \E i \in 1..Len(r.pathname) : DecodeThrows(r.pathname[i]) THEN Throw(calls)
    ELSE
    LET pathname == DecodeURIComponent(r.pathname)
        filePath == ResolvePath(c, pathname)
        calls1   == Append(calls, "stat")
    IN
    IF ~Exists(filePath) THEN Throw(calls1)
    ELSE IF Files[filePath].kind = "dir" THEN
        IF c.showDir THEN
            LET d == ServeDirectoryIndex(c, filePath, pathname) IN
            LogRequest(c, r, e, d.resp, AddCorsHeaders(c, d.resp), calls1 \o d.calls, <<>>)
        ELSE IF c.autoIndex THEN
            LET indexPath == Append(filePath, "index.html")
                calls2    == Append(calls1, "stat")
            IN
            IF ~Exists(indexPath) THEN Throw(calls2)
            ELSE IF Files[indexPath].kind = "file" THEN
                LET response == AddCorsHeaders(c, FileResponse(indexPath)) IN
                LogRequest(c, r, e, response, response, calls2, <<>>)
            ELSE IF c.proxy # "" THEN
                LET p == HandleProxy(c, r, e, c.proxy) IN
                IF p.threw THEN Throw(calls2 \o p.calls)
                ELSE LET response == AddCorsHeaders(c, p.resp) IN
                     LogRequest(c, r, e, response, response, calls2 \o p.calls, p.up)
            ELSE
                LET response == AddCorsHeaders(c, Response(Text("index.html not found"), 404, {})) IN
                LogRequest(c, r, e, response, response, calls2, <<>>)
        ELSE
            LET response == AddCorsHeaders(c, Response(Text("Directory listing not allowed"), 403, {})) IN
            LogRequest(c, r, e, response, response, calls1, <<>>)
    ELSE IF Files[filePath].kind = "file" THEN
        LET response == AddCorsHeaders(c, StatFileResponse(filePath)) IN
        LogRequest(c, r, e, response, response, calls1, <<>>)
    ELSE IF c.proxy # "" THEN
        LET p == HandleProxy(c, r, e, c.proxy) IN
        IF p.threw THEN Throw(calls1 \o p.calls)
        ELSE LET response == AddCorsHeaders(c, p.resp) IN
             LogRequest(c, r, e, response, response, calls1 \o p.calls, p.up)
    ELSE
        LET response == AddCorsHeaders(c, Response(Text("Not Found"), 404, {})) IN
        LogRequest(c, r, e, response, response, calls1, <<>>)

\* basic auth switched on by either of the two options
AuthConfigured_Either(c) == c.username # <<>> \/ c.password # <<>>

\* this.username && this.password
AuthConfigured(c) == c.username # <<>> /\ c.password # <<>>

\* the basic-auth step of fetch (lines 394-404) and what follows it
AuthStep(c, r, e, calls) ==
    IF AuthConfigured(c) THEN
        LET authHeader == r.authorization
            calls1 == Append(calls, "auth")
        IN
        IF authHeader = Null \/ authHeader = <<>> THEN Return(UnauthorizedResponse, calls1)
        ELSE IF IsValidBasicAuthThrows(authHeader) THEN Throw(calls1)
        ELSE IF ~IsValidBasicAuth(c, authHeader) THEN Return(UnauthorizedResponse, calls1)
        ELSE ServeStatic(c, r, e, calls1)
    ELSE ServeStatic(c, r, e, calls)

\* the WebSocket upgrade step of fetch (lines 383-392) and what follows it
UpgradeStep(c, r, e) ==
    IF IsUpgradeRequest(c, r) THEN
        IF ~e.upgraded
        THEN Return(Response(Text("WebSocket upgrade failed"), 400, {}), <<"upgrade:false">>)
        ELSE Return(Response(NullBody, 101, {}), <<"upgrade:true">>)
    ELSE AuthStep(c, r, e, <<>>)

\* the preflight step answering every OPTIONS request, CORS enabled or not
PreflightStep_AnyOptions(c, r, e) ==
    IF r.method = "OPTIONS"
    THEN LogRequest(c, r, e, PreflightResponse, PreflightResponse, <<>>, <<>>)
    ELSE UpgradeStep(c, r, e)

\* the CORS preflight step of fetch (lines 370-381) and what follows it
PreflightStep(c, r, e) ==
    IF c.cors /\ r.method = "OPTIONS"
    THEN LogRequest(c, r, e, PreflightResponse, PreflightResponse, <<>>, <<>>)
    ELSE UpgradeStep(c, r, e)

\* the try block of fetch, from the host check (lines 360-367)
TryBlock(c, r, e) ==
    IF c.host # <<>> /\ ReqHost(r) # c.host
    THEN LET response == Response(Text("Forbidden - Invalid Host"), 403, {}) IN
         LogRequest(c, r, e, response, response, <<>>, <<>>)
    ELSE PreflightStep(c, r, e)

\* the catch block of fetch (lines 464-481), after the calls the try block made
CatchBlock(c, r, e, calls) ==
    LET notFound == AddCorsHeaders(c, Response(Text("Not Found"), 404, {})) IN
    IF c.proxy # "" THEN
        LET p == HandleProxy(c, r, e, c.proxy) IN
        IF p.threw
        THEN [LogRequest(c, r, e, notFound, notFound, calls \o p.calls, <<>>)
                EXCEPT !.stderr = <<"Proxy request failed">> \o @]
        ELSE LET response == AddCorsHeaders(c, p.resp) IN
             LogRequest(c, r, e, response, response, calls \o p.calls, p.up)
    ELSE LogRequest(c, r, e, notFound, notFound, calls, <<>>)

\* fetch without its catch block
FetchOutcome_NoCatch(c, r, e) == TryBlock(c, r, e)

\* fetch(req)
FetchOutcome(c, r, e) ==
    LET t == TryBlock(c, r, e) IN
    IF t.threw THEN CatchBlock(c, r, e, t.fx) ELSE t

----------------------------------------------------------------------------
(* start *)

\* files readFileSync can read
ReadableFiles == {"cert.pem", "key.pem"}

\* start() raising only when a file name is not given
StartThrows_NoRead(c) == c.tls /\ (c.tlsCert = "" \/ c.tlsKey = "")

\* start() raises before Bun.serve: TLS enabled without a readable pair
StartThrows(c) ==
    c.tls /\ (c.tlsCert = "" \/ c.tlsKey = ""
              \/ c.tlsCert \notin ReadableFiles \/ c.tlsKey \notin ReadableFiles)

----------------------------------------------------------------------------
(* The WebSocket relay: the websocket handlers of start (lines 624-657)    *)

\* how many relay sessions there are, and how many messages each side of a
\* session sends
MaxSessions == 2
MaxMessages == 1

Sessions == 1..MaxSessions

\* a session before its upgrade and open(ws).  client is the state of the client socket as
\* the server has it ("closing": closed, the close handler not yet called),
\* targetWs is ws.data.targetWs, target the readyState of the upstream socket,
\* dial what became of the upstream connection attempt, closeEvent the
\* upstream socket's "close" event, inbox and targetInbox the messages that
\* arrived from the client and from the upstream and await their handler,
\* toTarget and toClient the messages handed to targetWs.send and ws.send
\* of open sockets, lost the messages that went nowhere; request keeps the
\* pathname and query string of the upgrade request, wsCloses and
\* targetCloses count the calls of ws.close() and targetWs.close().
NoSession ==
    [client |-> "none", pathname |-> <<>>, targetWs |-> "null", url |-> <<>>,
     request |-> [pathname |-> <<>>, search |-> ""],
     wsCloses |-> 0, targetCloses |-> 0,
     target |-> "none", dial |-> "none", closeEvent |-> "none", closedBy |-> "none",
     inbox |-> <<>>, targetInbox |-> <<>>, toTarget |-> <<>>, toClient |-> <<>>,
     lost |-> <<>>, nClient |-> 0, nTarget |-> 0]

\* server.upgrade(req, {data: {pathname: url.pathname}}) succeeded
Upgraded(r) ==
    [NoSession EXCEPT !.client = "open", !.pathname = r.pathname,
                      !.request = [pathname |-> r.pathname, search |-> r.search]]

\* a message that is not delivered, with the state of the two sockets then
Lose(ws, m) ==
    [ws EXCEPT !.lost = Append(@, [message |-> m, client |-> ws.client, target |-> ws.target])]

\* the open handler leaving the client open when new WebSocket raises
OpenHandler_LeavesClientOpen(c, ws) ==
    IF c.wsproxy \in InvalidUrls
    THEN [ws EXCEPT !.dial = "failed"]
    ELSE [ws EXCEPT !.targetWs = "ws", !.url = <<c.wsproxy>> \o ws.pathname,
                    !.target = "connecting", !.dial = "pending"]

\* the open handler dialling the whole URL of the upgrade request
OpenHandler_WithQuery(c, ws) ==
    IF c.wsproxy \in InvalidUrls
    THEN [ws EXCEPT !.client = "closing", !.closedBy = "server", !.dial = "failed",
                    !.wsCloses = @ + 1]
    ELSE [ws EXCEPT !.targetWs = "ws",
                    !.url = <<c.wsproxy>> \o ws.pathname \o
                            (IF ws.request.search = "" THEN <<>> ELSE <<ws.request.search>>),
                    !.target = "connecting", !.dial = "pending"]

\* open(ws): new WebSocket(self.wsproxy + ws.data.pathname) raises
\* (SyntaxError) for a URL it cannot parse and the catch closes the client
OpenHandler(c, ws) ==
    IF c.wsproxy \in InvalidUrls
    THEN [ws EXCEPT !.client = "closing", !.closedBy = "server", !.dial = "failed",
                    !.wsCloses = @ + 1]
    ELSE [ws EXCEPT !.targetWs = "ws", !.url = <<c.wsproxy>> \o ws.pathname,
                    !.target = "connecting", !.dial = "pending"]

\* message(ws, message): targetWs?.send(message).  send raises
\* InvalidStateError while the socket is CONNECTING and discards the message
\* once it is CLOSING or CLOSED
MessageHandler(ws, m) ==
    IF ws.targetWs = "null" THEN Lose(ws, m)
    ELSE IF ws.target = "open" THEN [ws EXCEPT !.toTarget = Append(@, m)]
    ELSE Lose(ws, m)

\* the close handler leaving the upstream socket as it is
CloseHandler_KeepsTarget(ws) == [ws EXCEPT !.client = "closed"]

\* close(ws): targetWs?.close(), which does nothing on a socket that is
\* closing or closed
CloseHandler(ws) ==
    IF ws.targetWs = "null" THEN [ws EXCEPT !.client = "closed"]
    ELSE IF ws.target \in {"connecting", "open"}
    THEN [ws EXCEPT !.client = "closed", !.target = "closing",
                    !.dial = IF ws.target = "connecting" THEN "aborted" ELSE @,
                    !.targetCloses = @ + 1]
    ELSE [ws EXCEPT !.client = "closed", !.targetCloses = @ + 1]

\* the "message" listener of targetWs: ws.send(event.data)
TargetMessageListener(ws, m) ==
    IF ws.client = "open" THEN [ws EXCEPT !.toClient = Append(@, m)]
    ELSE Lose(ws, m)

\* the "close" listener running a second time after it closed the client
TargetCloseListener_FiresTwice(ws) ==
    IF ws.client = "open"
    THEN [ws EXCEPT !.client = "closing", !.closedBy = "server", !.wsCloses = @ + 1]
    ELSE [ws EXCEPT !.closeEvent = "done", !.wsCloses = @ + 1]

\* the "close" listener of targetWs: ws.close(), which does nothing on a
\* socket that is closed
TargetCloseListener(ws) ==
    IF ws.client = "open"
    THEN [ws EXCEPT !.closeEvent = "done", !.client = "closing", !.closedBy = "server",
                    !.wsCloses = @ + 1]
    ELSE [ws EXCEPT !.closeEvent = "done", !.wsCloses = @ + 1]

\* the client sockets the "close" listener registered by open(ws) of
\* session s closes when it runs: every one of them
ListenerSockets_All(s) == Sessions

\* the client sockets the "close" listener registered by open(ws) of
\* session s closes when it runs: the ws of that call
ListenerSockets(s) == {s}

\* the k-th message of the client and of the upstream of session s
ClientMessage(s, k) == <<"client", s, k>>
TargetMessage(s, k) == <<"upstream", s, k>>

----------------------------------------------------------------------------
(* Inputs *)

\* "user:pass"
Credentials(u, p) == u \o <<Colon>> \o p

\* the header a client sends for the credential string cred
BasicHeader(cred) == S_Basic \o <<Space>> \o Btoa(cred)

S_x        == <<120>>                                         \* "x"
S_BasicBad   == <<66, 97, 115, 105, 99, 32, 33, 33, 33>>        \* "Basic !!!"

AuthHeaders ==
    {Null,
     BasicHeader(Credentials(S_u, S_p)),
     BasicHeader(Credentials(S_u, S_pq)),
     BasicHeader(Credentials(S_u, S_x)),
     S_BasicBad}

Pathnames ==
    {<<"a.txt">>, <<"docs">>, <<"odd">>, <<"fifo">>, <<"locked">>,
     <<"nope">>, <<"%">>, <<"..%2fsecret">>}

Requests ==
    [method : {"GET", "OPTIONS"},
     host : {Null, S_h, S_h80, S_o},
     upgrade : {Null, S_websocket, S_WebSocket, S_h2c},
     authorization : AuthHeaders,
     pathname : Pathnames,
     search : {""}, xff : {""}, xrealip : {""}, userAgent : {""}, body : {""}]

NoRequest ==
    [method |-> "", host |-> Null, upgrade |-> Null, authorization |-> Null,
     pathname |-> <<>>, search |-> "", xff |-> "", xrealip |-> "",
     userAgent |-> "", body |-> ""]

\* what the upstream answers: a response, or a network failure
Upstreams ==
    {[ok |-> TRUE, resp |-> Response(<<"upstream", "hello">>, 200,
                                {<<"Access-Control-Allow-Origin", "https://app">>})],
     [ok |-> TRUE, resp |-> Response(<<"upstream", "denied">>, 401,
                                {<<"WWW-Authenticate", "Basic realm=\"up\"">>})],
     [ok |-> FALSE, resp |-> NoResponse]}

\* what the environment decides during one fetch: the result of
\* server.upgrade, the upstream's answer, whether appendFile succeeds
\* (each only where the configuration gives it something to decide)
Environments(c) ==
    [upgraded : IF c.wsproxy = "" THEN {FALSE} ELSE BOOLEAN,
     upstream : IF c.proxy = "" THEN {[ok |-> FALSE, resp |-> NoResponse]} ELSE Upstreams,
     appendOk : IF c.logpath = "" THEN {TRUE} ELSE BOOLEAN]

\* the command lines of the dispatch specification
DispatchOptions ==
    {[DefaultOptions EXCEPT !.host = h, !.cors = co, !.wsproxy = w, !.username = u,
                            !.password = pw, !.proxy = px, !.showDir = sd, !.autoIndex = ai] :
        h \in {S_empty, S_h}, co \in BOOLEAN, w \in {"", WsProxyTarget},
        u \in {S_empty, S_u}, pw \in {S_empty, S_p, S_pq}, px \in {"", ProxyTarget},
        sd \in BOOLEAN, ai \in BOOLEAN}

----------------------------------------------------------------------------
(* The state machine *)

Init ==
    /\ phase = "constructed"
    /\ cfg \in {Constructor(o, DefaultEnv) : o \in DispatchOptions}
    /\ req = NoRequest
    /\ resp = NoResponse
    /\ fx = <<>>
    /\ stdout = <<>>
    /\ logfile = <<>>
    /\ stderr = <<>>
    /\ sent = <<>>
    /\ received = <<>>
    /\ relay = <<>>
    /\ launch = [argv |-> ArgvFor(cfg), env |-> DefaultEnv]
    /\ fmt = <<>>

\* hyperserve.start()
Start ==
    /\ phase = "constructed"
    /\ phase' = IF StartThrows(cfg) THEN "failed" ELSE "serving"
    /\ UNCHANGED <<cfg, req, resp, fx, stdout, logfile, stderr, sent, received, relay,
                   launch, fmt>>

\* one call of fetch(req) by the server, for a request of the set requests
FetchFrom(requests) ==
    /\ phase = "serving"
    /\ \E r \in requests, e \in Environments(cfg) :
        LET o == FetchOutcome(cfg, r, e) IN
        /\ req' = r
        /\ resp' = o.resp
        /\ fx' = o.fx
        /\ stdout' = o.stdout
        /\ logfile' = o.logfile
        /\ stderr' = o.stderr
        /\ sent' = o.sent
        /\ received' = [i \in 1..Len(o.sent) |-> e.upstream]
    /\ phase' = "responded"
    /\ UNCHANGED <<cfg, relay, launch, fmt>>

\* one call of fetch(req) by the server
Fetch == FetchFrom(Requests)

\* the runtime writes the response to the client and waits for the next request
Respond ==
    /\ phase = "responded"
    /\ phase' = "serving"
    /\ req' = NoRequest
    /\ resp' = NoResponse
    /\ fx' = <<>>
    /\ stdout' = <<>>
    /\ logfile' = <<>>
    /\ stderr' = <<>>
    /\ sent' = <<>>
    /\ received' = <<>>
    /\ UNCHANGED <<cfg, relay, launch, fmt>>

Next == Start \/ Fetch \/ Respond

Spec == Init /\ [][Next]_vars

\* the command lines and environments of the launch specification: the port
\* flag absent, given, or given empty; TLS with and without its two files
LaunchArgvs ==
    {port \cup tls \cup cert \cup key :
        port \in {{}, {<<"port", "8080">>}, {<<"port", "">>}},
        tls  \in {{}, {<<"tls", TRUE>>}},
        cert \in {{}, {<<"tlsCert", "cert.pem">>}, {<<"tlsCert", "missing.pem">>}},
        key  \in {{}, {<<"tlsKey", "key.pem">>}}}

LaunchEnvs == [PORT : {"", "4000"}, NODE_PORT : {"", "5000"}]

LaunchRequests ==
    {[NoRequest EXCEPT !.method = "GET", !.pathname = pn] :
        pn \in {<<"a.txt">>, <<"nope">>}}

\* const {values: state} = parseArgs(...); new Hyperserve(state)
LaunchInit ==
    /\ phase = "constructed"
    /\ launch \in [argv : LaunchArgvs, env : LaunchEnvs]
    /\ cfg = Constructor(ParseArgs(launch.argv), launch.env)
    /\ req = NoRequest
    /\ resp = NoResponse
    /\ fx = <<>>
    /\ stdout = <<>>
    /\ logfile = <<>>
    /\ stderr = <<>>
    /\ sent = <<>>
    /\ received = <<>>
    /\ relay = <<>>
    /\ fmt = <<>>

LaunchNext == Start \/ FetchFrom(LaunchRequests) \/ Respond

LaunchSpec == LaunchInit /\ [][LaunchNext]_vars

\* ---- formatSize ----
\* A byte count is the sequence of its digits in base 1024, least
\* significant first, so that counts of a terabyte and more are in reach.
\* size /= 1024 is exact on a double: it moves the lowest digit of the
\* integral part to the head of the fraction.

Base == 1024

\* the longest byte count, in digits
MaxDigits == 6

Units == <<"B", "KB", "MB", "GB", "TB">>

Digits == {0, 1, 52, 512, 1023}

\* the numbers of at most MaxDigits digits, without leading zero digits
ByteCounts ==
    {b \in UNION {[1..n -> Digits] : n \in 1..MaxDigits} :
        Len(b) = 1 \/ b[Len(b)] # 0}

RECURSIVE Value(_)
Value(digits) ==
    IF digits = <<>> THEN 0 ELSE Head(digits) + Base * Value(Tail(digits))

\* ten times a fraction (digits most significant first): the digits of the
\* fractional part of the product, and its integral part as carry
RECURSIVE TimesTen(_)
TimesTen(frac) ==
    IF frac = <<>> THEN [digits |-> <<>>, carry |-> 0]
    ELSE LET rest == TimesTen(Tail(frac))
             v    == Head(frac) * 10 + rest.carry
         IN  [digits |-> <<v % Base>> \o rest.digits, carry |-> v \div Base]

\* size.toFixed(1): the nearest multiple of a tenth, the larger of two
\* equally near, as <<whole, tenths>>
ToFixed1(size, frac) ==
    LET m  == TimesTen(frac)
        up == m.digits # <<>> /\ m.digits[1] >= Base \div 2
        t  == m.carry + (IF up THEN 1 ELSE 0)
    IN  IF t = 10 THEN <<Value(size) + 1, 0>> ELSE <<Value(size), t>>

\* the loop without the test of unitIndex
LoopCondition_NoUnitCap(f) == Len(f.size) > 1

\* size >= 1024 && unitIndex < units.length - 1
LoopCondition(f) == Len(f.size) > 1 /\ f.unitIndex < Len(Units) - 1

\* formatSize(bytes) at its first statement
FormatCall(bytes) ==
    [bytes |-> bytes, size |-> bytes, frac |-> <<>>, unitIndex |-> 0,
     divisions |-> 0, pc |-> "loop", out |-> <<>>]

FormatInit ==
    /\ phase = "constructed"
    /\ cfg = Constructor(DefaultOptions, DefaultEnv)
    /\ req = NoRequest
    /\ resp = NoResponse
    /\ fx = <<>>
    /\ stdout = <<>>
    /\ logfile = <<>>
    /\ stderr = <<>>
    /\ sent = <<>>
    /\ received = <<>>
    /\ relay = <<>>
    /\ launch = [argv |-> ArgvFor(cfg), env |-> DefaultEnv]
    /\ fmt \in {FormatCall(b) : b \in ByteCounts}

\* one turn of the loop: size /= 1024; unitIndex++
Divide ==
    /\ fmt.pc = "loop" /\ LoopCondition(fmt)
    /\ fmt' = [fmt EXCEPT !.size = Tail(fmt.size),
                          !.frac = <<Head(fmt.size)>> \o fmt.frac,
                          !.unitIndex = fmt.unitIndex + 1,
                          !.divisions = fmt.divisions + 1]
    /\ UNCHANGED <<phase, cfg, req, resp, fx, stdout, logfile, stderr, sent,
                   received, relay, launch>>

\* the return: the text is <<whole, tenths, unit>>; an index past the
\* units gives undefined
FormatReturn ==
    /\ fmt.pc = "loop" /\ ~LoopCondition(fmt)
    /\ fmt' = [fmt EXCEPT !.pc = "done",
                          !.out = ToFixed1(fmt.size, fmt.frac) \o
                                  <<IF fmt.unitIndex + 1 \in DOMAIN Units
                                    THEN Units[fmt.unitIndex + 1]
                                    ELSE "undefined">>]
    /\ UNCHANGED <<phase, cfg, req, resp, fx, stdout, logfile, stderr, sent,
                   received, relay, launch>>

FormatNext == Divide \/ FormatReturn

FormatSpec == FormatInit /\ [][FormatNext]_vars

\* the command lines of the detail specification: proxy target, User-Agent
\* override, full-listing mode, dotfile filter, log file
DetailOptions ==
    {[DefaultOptions EXCEPT !.proxy = px, !.userAgent = ua, !.showDir = sd,
                            !.noDotfiles = nd, !.logpath = lp] :
        px \in {"", ProxyTarget}, ua \in {"", "agent/1"}, sd \in BOOLEAN,
        nd \in BOOLEAN, lp \in {"", "access.log"}}

\* requests with forwarding headers, a User-Agent, a body; the empty
\* pathname is the base directory, .hidden a dotfile in it
DetailRequests ==
    [method : {"GET", "POST"},
     host : {S_h},
     upgrade : {Null},
     authorization : {Null, S_x},
     pathname : {<<>>, <<"a.txt">>, <<".hidden">>, <<"nope">>},
     search : {""},
     xff : {"", "1.1.1.1, 2.2.2.2"},
     xrealip : {"", "3.3.3.3"},
     userAgent : {"", "curl/8"},
     body : {"", "data"}]

DetailInit ==
    /\ phase = "constructed"
    /\ cfg \in {Constructor(o, DefaultEnv) : o \in DetailOptions}
    /\ req = NoRequest
    /\ resp = NoResponse
    /\ fx = <<>>
    /\ stdout = <<>>
    /\ logfile = <<>>
    /\ stderr = <<>>
    /\ sent = <<>>
    /\ received = <<>>
    /\ relay = <<>>
    /\ launch = [argv |-> ArgvFor(cfg), env |-> DefaultEnv]
    /\ fmt = <<>>

DetailNext == Start \/ FetchFrom(DetailRequests) \/ Respond

DetailSpec == DetailInit /\ [][DetailNext]_vars

\* the command lines of the proxy specification: no proxy target, a target
\* new URL accepts, a target it rejects
ProxyOptions ==
    {[DefaultOptions EXCEPT !.proxy = px, !.cors = co, !.showDir = sd] :
        px \in {"", ProxyTarget} \cup InvalidUrls, co \in BOOLEAN, sd \in BOOLEAN}

ProxyInit ==
    /\ phase = "constructed"
    /\ cfg \in {Constructor(o, DefaultEnv) : o \in ProxyOptions}
    /\ req = NoRequest
    /\ resp = NoResponse
    /\ fx = <<>>
    /\ stdout = <<>>
    /\ logfile = <<>>
    /\ stderr = <<>>
    /\ sent = <<>>
    /\ received = <<>>
    /\ relay = <<>>
    /\ launch = [argv |-> ArgvFor(cfg), env |-> DefaultEnv]
    /\ fmt = <<>>

ProxySpec == ProxyInit /\ [][Next]_vars

----------------------------------------------------------------------------
(* The relay specification: sessions that fetch upgraded, the events of    *)
(* their two sockets and the handlers the runtime calls for them           *)

RelayPathnames == {<<"chat">>}

\* the command lines of the relay specification: a WebSocket target
\* new WebSocket accepts, and one it rejects
RelayOptions ==
    {[DefaultOptions EXCEPT !.wsproxy = w, !.username = S_u, !.password = S_p] :
        w \in {WsProxyTarget} \cup InvalidUrls}

\* an upgrade request for pathname, without credentials
UpgradeRequest(pathname) ==
    [NoRequest EXCEPT !.method = "GET", !.upgrade = S_WebSocket, !.pathname = pathname]

RelayInit ==
    /\ phase = "constructed"
    /\ cfg \in {Constructor(o, DefaultEnv) : o \in RelayOptions}
    /\ req = NoRequest
    /\ resp = NoResponse
    /\ fx = <<>>
    /\ stdout = <<>>
    /\ logfile = <<>>
    /\ stderr = <<>>
    /\ sent = <<>>
    /\ received = <<>>
    /\ relay = <<>>
    /\ launch = [argv |-> ArgvFor(cfg), env |-> DefaultEnv]
    /\ fmt = <<>>

\* fetch upgrades a request (server.upgrade returns true) and the runtime
\* calls open(ws) for the new socket
UpgradeFrom(s, requests) ==
    /\ phase = "serving"
    /\ s = Len(relay) + 1
    /\ \E r \in requests :
        LET e == [upgraded |-> TRUE, upstream |-> [ok |-> FALSE, resp |-> NoResponse],
                  appendOk |-> TRUE]
            o == FetchOutcome(cfg, r, e)
        IN  /\ o.fx = <<"upgrade:true">>
            /\ relay' = Append(relay, OpenHandler(cfg, Upgraded(r)))
    /\ UNCHANGED httpVars

\* the upgrade requests of the relay specification
RelayRequests == {UpgradeRequest(pathname) : pathname \in RelayPathnames}

Upgrade(s) == UpgradeFrom(s, RelayRequests)

\* the client sends a message
ClientSend(s) ==
    /\ s \in DOMAIN relay
    /\ relay[s].client = "open"
    /\ relay[s].nClient < MaxMessages
    /\ relay' = [relay EXCEPT ![s].inbox = Append(@, ClientMessage(s, relay[s].nClient + 1)),
                              ![s].nClient = @ + 1]
    /\ UNCHANGED httpVars

\* the runtime calls message(ws, message) for the next message of the client
WsMessage(s) ==
    /\ s \in DOMAIN relay
    /\ relay[s].client \in {"open", "closing"}
    /\ relay[s].inbox # <<>>
    /\ relay' = [relay EXCEPT ![s] =
            MessageHandler([relay[s] EXCEPT !.inbox = Tail(@)], Head(relay[s].inbox))]
    /\ UNCHANGED httpVars

\* the client closes its connection
ClientClose(s) ==
    /\ s \in DOMAIN relay
    /\ relay[s].client = "open"
    /\ relay' = [relay EXCEPT ![s].client = "closing", ![s].closedBy = "client"]
    /\ UNCHANGED httpVars

\* the runtime calls close(ws), after the messages that arrived before
WsClose(s) ==
    /\ s \in DOMAIN relay
    /\ relay[s].client = "closing"
    /\ relay[s].inbox = <<>>
    /\ relay' = [relay EXCEPT ![s] = CloseHandler(relay[s])]
    /\ UNCHANGED httpVars

\* the upstream accepts the connection ("open" event, no listener)
TargetOpened(s) ==
    /\ s \in DOMAIN relay
    /\ relay[s].target = "connecting"
    /\ relay' = [relay EXCEPT ![s].target = "open", ![s].dial = "opened"]
    /\ UNCHANGED httpVars

\* the connection attempt fails ("error" event, no listener, then "close")
TargetDialFails(s) ==
    /\ s \in DOMAIN relay
    /\ relay[s].target = "connecting"
    /\ relay' = [relay EXCEPT ![s].target = "closed", ![s].dial = "failed",
                              ![s].closeEvent = "pending"]
    /\ UNCHANGED httpVars

\* the upstream sends a message
TargetSend(s) ==
    /\ s \in DOMAIN relay
    /\ relay[s].target = "open"
    /\ relay[s].nTarget < MaxMessages
    /\ relay' = [relay EXCEPT ![s].targetInbox = Append(@, TargetMessage(s, relay[s].nTarget + 1)),
                              ![s].nTarget = @ + 1]
    /\ UNCHANGED httpVars

\* the "message" listener runs for the next message of the upstream
TargetOnMessage(s) ==
    /\ s \in DOMAIN relay
    /\ relay[s].targetInbox # <<>>
    /\ relay' = [relay EXCEPT ![s] =
            TargetMessageListener([relay[s] EXCEPT !.targetInbox = Tail(@)],
                                  Head(relay[s].targetInbox))]
    /\ UNCHANGED httpVars

\* the upstream closes the connection, or the connection breaks
TargetClosed(s) ==
    /\ s \in DOMAIN relay
    /\ relay[s].target = "open"
    /\ relay' = [relay EXCEPT ![s].target = "closed", ![s].closeEvent = "pending"]
    /\ UNCHANGED httpVars

\* the close that targetWs.close() started completes
TargetCloseCompletes(s) ==
    /\ s \in DOMAIN relay
    /\ relay[s].target = "closing"
    /\ relay' = [relay EXCEPT ![s].target = "closed", ![s].closeEvent = "pending"]
    /\ UNCHANGED httpVars

\* the "close" listener runs, after the messages that arrived before
TargetOnClose(s) ==
    /\ s \in DOMAIN relay
    /\ relay[s].closeEvent = "pending"
    /\ relay[s].targetInbox = <<>>
    /\ relay' = [t \in DOMAIN relay |->
            IF t = s THEN TargetCloseListener(relay[t])
            ELSE IF t \in ListenerSockets(s) /\ relay[t].client = "open"
                 THEN [relay[t] EXCEPT !.client = "closing", !.closedBy = "server"]
                 ELSE relay[t]]
    /\ UNCHANGED httpVars

\* the steps of session s
SessionStep(s) ==
    \/ Upgrade(s)
    \/ ClientSend(s)
    \/ WsMessage(s)
    \/ ClientClose(s)
    \/ WsClose(s)
    \/ TargetOpened(s)
    \/ TargetDialFails(s)
    \/ TargetSend(s)
    \/ TargetOnMessage(s)
    \/ TargetClosed(s)
    \/ TargetCloseCompletes(s)
    \/ TargetOnClose(s)

RelayNext == Start \/ \E s \in Sessions : SessionStep(s)

\* the runtime calls the handler of every pending socket event, and a close
\* that was started completes
RelayFairness ==
    \A s \in Sessions :
        /\ WF_vars(WsMessage(s))
        /\ WF_vars(WsClose(s))
        /\ WF_vars(TargetOnMessage(s))
        /\ WF_vars(TargetOnClose(s))
        /\ WF_vars(TargetCloseCompletes(s))

RelaySpec == RelayInit /\ [][RelayNext]_vars /\ RelayFairness

\* upgrade requests with and without a query string
OpenRequests ==
    {[UpgradeRequest(pathname) EXCEPT !.search = q] :
        pathname \in {<<"chat">>, <<"a.txt">>}, q \in {"", "?room=1"}}

\* the sessions from upgrade to the close of both sockets, without messages
OpenNext ==
    \/ Start
    \/ \E s \in Sessions :
        \/ UpgradeFrom(s, OpenRequests)
        \/ ClientClose(s)
        \/ WsClose(s)
        \/ TargetOpened(s)
        \/ TargetDialFails(s)
        \/ TargetClosed(s)
        \/ TargetCloseCompletes(s)
        \/ TargetOnClose(s)

OpenSpec == RelayInit /\ [][OpenNext]_vars

----------------------------------------------------------------------------
(* The claims.  Each is stated on the state fetch leaves behind            *)
(* (phase = "responded"): the request, the response returned, the calls    *)
(* made and the log output.                                                *)

Responded == phase = "responded"

\* The steps of the dispatcher as section 4.1 of the specification words them

\* header h is the allowed host a, alone or followed by ":" and a port
IsHostWithOptionalPort(h, a) ==
    /\ h # Null
    /\ \/ h = a
       \/ /\ Len(h) > Len(a)
          /\ SubSeq(h, 1, Len(a)) = a
          /\ h[Len(a) + 1] = Colon

HostRejected(c, r) == c.host # <<>> /\ ~IsHostWithOptionalPort(r.host, c.host)
IsPreflight(c, r) == c.cors /\ r.method = "OPTIONS"
UpgradeAsked(c, r) == c.wsproxy # "" /\ r.upgrade \in {S_websocket, S_WebSocket}
AuthRequired(c) == c.username # <<>> /\ c.password # <<>>

\* the request gets as far as the basic-auth step
ReachesAuthStep(c, r) ==
    ~HostRejected(c, r) /\ ~IsPreflight(c, r) /\ ~UpgradeAsked(c, r)

\* the credentials the specification accepts: Basic base64("u:p")
ValidCredentials(c, r) ==
    r.authorization = BasicHeader(Credentials(c.username, c.password))

HostRejection == Response(Text("Forbidden - Invalid Host"), 403, {})
UpgradeResponses ==
    {Response(Text("WebSocket upgrade failed"), 400, {}), Response(NullBody, 101, {})}

Has(calls, call) == \E i \in 1..Len(calls) : calls[i] = call
UpgradeCalls == {"upgrade:true", "upgrade:false"}
HasUpgradeCall(calls) == \E i \in 1..Len(calls) : calls[i] \in UpgradeCalls

\* fetch got to `decodeURIComponent(url.pathname)`: it made the stat call, or
\* the decoding raised
PathResolutionReached(r, calls) ==
    Has(calls, "stat") \/ \E i \in 1..Len(r.pathname) : DecodeThrows(r.pathname[i])

\* C1: the response comes from the first step that matches, in the order host
\* check, CORS preflight, WebSocket upgrade, basic auth, static resolution,
\* proxy fallback, and no later step runs after it: a rejected host makes no
\* call at all, a preflight none, an upgrade request only the upgrade call, a
\* request with missing or invalid credentials only the auth check, and only
\* the remaining requests reach the file system or the upstream.
C1_FirstMatchingStepResponds ==
    Responded =>
        IF HostRejected(cfg, req) THEN resp = HostRejection /\ fx = <<>>
        ELSE IF IsPreflight(cfg, req) THEN resp.body = NullBody /\ fx = <<>>
        ELSE IF UpgradeAsked(cfg, req)
             THEN resp \in UpgradeResponses /\ Len(fx) = 1 /\ fx[1] \in UpgradeCalls
        ELSE IF AuthRequired(cfg) /\ ~ValidCredentials(cfg, req)
             THEN resp.status = 401 /\ fx = <<"auth">>
        ELSE /\ resp # HostRejection
             /\ resp \notin UpgradeResponses
             /\ ~HasUpgradeCall(fx)
             /\ \A i \in 1..Len(fx) : fx[i] = "auth" => i = 1

\* C2: with an allowed host configured, a request whose Host header is not the
\* allowed host (alone or followed by a port), or is absent, gets 403
\* "Forbidden - Invalid Host" and no upgrade, auth, file-system or upstream
\* call is made for it; a Host of the allowed host followed by a port is not
\* rejected by the host check.
C2_HostCheck ==
    Responded /\ cfg.host # <<>> =>
        IF ~IsHostWithOptionalPort(req.host, cfg.host)
        THEN resp = HostRejection /\ fx = <<>> /\ sent = <<>>
        ELSE resp # HostRejection

\* a request with a foreign Host, an Upgrade header, valid credentials and an
\* existing file is rejected with 403
C2_Witness ==
    /\ Responded
    /\ cfg.host = S_h /\ cfg.wsproxy # "" /\ AuthRequired(cfg)
    /\ req.host = S_o /\ req.upgrade = S_websocket
    /\ ValidCredentials(cfg, req) /\ req.pathname = <<"a.txt">>
    /\ resp.status = 403

\* C3: with username u and password p configured, a request that reaches the
\* auth step without exactly "Basic base64(u:p)" gets 401 with a
\* WWW-Authenticate header and is neither served from the file system nor
\* forwarded.  (Stated for the headers atob decodes; those it rejects are
\* the case of C4.)
C3_OtherCredentialsGet401 ==
    Responded /\ AuthRequired(cfg) /\ ReachesAuthStep(cfg, req) /\ ~ValidCredentials(cfg, req)
              /\ (req.authorization = Null \/ ~IsValidBasicAuthThrows(req.authorization)) =>
        /\ resp.status = 401
        /\ \E h \in resp.headers : h[1] = "WWW-Authenticate"
        /\ sent = <<>>
        /\ ~Has(fx, "stat") /\ ~Has(fx, "readdir")

\* C4: with basic auth configured, an Authorization header whose second token
\* atob rejects is answered 401 "Unauthorized": it is not forwarded to the
\* upstream and not answered 404.
C4_MalformedAuthGets401 ==
    Responded /\ AuthRequired(cfg) /\ ReachesAuthStep(cfg, req)
              /\ req.authorization # Null /\ IsValidBasicAuthThrows(req.authorization) =>
        /\ resp.status = 401
        /\ resp.body = Text("Unauthorized")
        /\ sent = <<>>

\* C5: for non-empty u and p, ':' allowed in them, a request that reaches the
\* auth step with "Basic base64(u:p)" is not answered with the 401 challenge
\* and proceeds to path resolution.
C5_ValidCredentialsPass ==
    Responded /\ AuthRequired(cfg) /\ ReachesAuthStep(cfg, req) /\ ValidCredentials(cfg, req) =>
        /\ resp # UnauthorizedResponse
        /\ PathResolutionReached(req, fx)

\* C6: with the username or the password not configured, no auth check is
\* made and no request is answered with the 401 challenge (a 401 is only ever
\* the upstream's own answer, relayed by the proxy fallback); a request that
\* passes steps 1-3 without an Authorization header proceeds to path resolution.
C6_AuthNeedsBoth ==
    Responded /\ (cfg.username = <<>> \/ cfg.password = <<>>) =>
        /\ ~Has(fx, "auth")
        /\ resp.body # Text("Unauthorized")
        /\ \A h \in resp.headers : h # <<"WWW-Authenticate", "Basic realm=\"Authentication required\"">>
        /\ resp.status = 401 => sent # <<>> /\ resp.body = <<"upstream", "denied">>
        /\ ReachesAuthStep(cfg, req) /\ req.authorization = Null => PathResolutionReached(req, fx)

\* only a username is configured and a request without credentials is served
C6_Witness ==
    /\ Responded
    /\ cfg.username = S_u /\ cfg.password = <<>>
    /\ req.authorization = Null /\ req.pathname = <<"a.txt">>
    /\ resp.status = 200 /\ resp.body = <<"file", "srv", "a.txt">>

\* C7: an upgrade request (Upgrade: websocket in any letter case, with a
\* WebSocket target configured) that passes the host check and is no preflight
\* makes the upgrade call and nothing else: 400 when it fails, 101 when it
\* succeeds, no auth check, no file-system or upstream call, credentials or
\* not.  Without a WebSocket target no upgrade call is ever made and a
\* request past steps 1-2 starts with the auth check when auth is configured.
C7_UpgradeBeforeAuth ==
    Responded =>
        /\ UpgradeAsked(cfg, req) => ~Has(fx, "auth")
        /\ UpgradeAsked(cfg, req) /\ ~HostRejected(cfg, req) /\ ~IsPreflight(cfg, req) =>
            /\ Len(fx) = 1 /\ fx[1] \in UpgradeCalls
            /\ fx[1] = "upgrade:false" =>
                   resp = Response(Text("WebSocket upgrade failed"), 400, {})
            /\ fx[1] = "upgrade:true" => resp = Response(NullBody, 101, {})
            /\ sent = <<>>
        /\ cfg.wsproxy = "" =>
            /\ ~HasUpgradeCall(fx)
            /\ resp \notin UpgradeResponses
            /\ ~HostRejected(cfg, req) /\ ~IsPreflight(cfg, req) /\ AuthRequired(cfg) =>
                   fx # <<>> /\ fx[1] = "auth"

\* basic auth is configured and an upgrade request in mixed case without
\* credentials is switched to the WebSocket protocol
C7_Witness ==
    /\ Responded
    /\ AuthRequired(cfg) /\ cfg.wsproxy # ""
    /\ req.upgrade = S_WebSocket /\ req.authorization = Null
    /\ fx = <<"upgrade:true">> /\ resp.status = 101

\* C8: every fetch writes exactly one access log entry.
C8_LoggedExactlyOnce ==
    Responded => Len(stdout) = 1

\* C9: with CORS enabled every response other than the result of the upgrade
\* step carries Access-Control-Allow-Origin: *.
C9_CorsOnEveryResponse ==
    Responded /\ cfg.cors /\ resp \notin UpgradeResponses =>
        <<"Access-Control-Allow-Origin", "*">> \in resp.headers

\* the four headers of the preflight response
PreflightHeaders ==
    {<<"Access-Control-Allow-Origin", "*">>,
     <<"Access-Control-Allow-Methods", "GET, POST, PUT, DELETE, OPTIONS">>,
     <<"Access-Control-Allow-Headers", "Content-Type, Authorization">>,
     <<"Access-Control-Max-Age", "86400">>}

Relayed(response) == response.body[1] = "upstream"

HasHeader(response, name) == \E h \in response.headers : h[1] = name

\* C11: with CORS disabled an OPTIONS request is no preflight: it is answered
\* as the same request with method GET is (same response, same calls), so it
\* starts with the auth check when auth is configured and otherwise reaches
\* path resolution; and no response the server generates itself (any response
\* but a relayed upstream one) carries an Access-Control-* header.
C11_NoCorsWhenDisabled ==
    Responded /\ ~cfg.cors =>
        /\ ~Relayed(resp) =>
            /\ ~HasHeader(resp, "Access-Control-Allow-Origin")
            /\ ~HasHeader(resp, "Access-Control-Max-Age")
        /\ req.method = "OPTIONS" =>
            /\ \E e \in Environments(cfg) :
                   LET o == FetchOutcome(cfg, [req EXCEPT !.method = "GET"], e)
                   IN  o.resp = resp /\ o.fx = fx
            /\ ReachesAuthStep(cfg, req) /\ AuthRequired(cfg) => fx[1] = "auth"
            /\ ReachesAuthStep(cfg, req) /\ ~AuthRequired(cfg) =>
                   PathResolutionReached(req, fx)

\* with CORS disabled and basic auth configured an OPTIONS request without
\* credentials is challenged, and the challenge has no CORS header
C11_Witness ==
    /\ Responded
    /\ ~cfg.cors /\ AuthRequired(cfg)
    /\ req.method = "OPTIONS" /\ req.authorization = Null
    /\ resp = UnauthorizedResponse /\ fx = <<"auth">>

\* p lies in the base directory of configuration c (or is it)
InBaseDir(c, p) ==
    LET base == Normalize(Cwd \o <<c.baseDir>>) IN
    Len(p) >= Len(base) /\ SubSeq(p, 1, Len(base)) = base

\* the request path decodes, and percent-decoded, joined to the base
\* directory and normalized it lies outside the base directory
ResolvesOutside(c, r) ==
    /\ \A i \in 1..Len(r.pathname) : ~DecodeThrows(r.pathname[i])
    /\ ~InBaseDir(c, ResolvePath(c, DecodeURIComponent(r.pathname)))

\* the request passes steps 1-4: host check, preflight, upgrade, and basic
\* auth by the code's own verdict on the Authorization header
PassesSteps1to4(c, r) ==
    /\ ReachesAuthStep(c, r)
    /\ AuthConfigured(c) =>
        /\ r.authorization # Null
        /\ ~IsValidBasicAuthThrows(r.authorization)
        /\ IsValidBasicAuth(c, r.authorization)

\* C12: a request that passes steps 1-4 and whose path resolves outside the
\* base directory is answered 404 or 403, without a stat or readdir call and
\* without a file or a listing in the response.
C12_NeverOutsideBaseDir ==
    Responded /\ PassesSteps1to4(cfg, req) /\ ResolvesOutside(cfg, req) =>
        /\ resp.status \in {403, 404}
        /\ resp.body[1] \notin {"file", "listing"}
        /\ ~Has(fx, "stat") /\ ~Has(fx, "readdir")

\* the path of the request does not resolve to a servable file or directory:
\* it does not decode, nothing is there, what is there is neither a file nor
\* a directory, the directory cannot be read (full-listing mode) or has no
\* index.html file (auto-index mode)
NotServable(c, r) ==
    \/ \E i \in 1..Len(r.pathname) : DecodeThrows(r.pathname[i])
    \/ LET p == ResolvePath(c, DecodeURIComponent(r.pathname)) IN
       \/ ~Exists(p)
       \/ Files[p].kind = "other"
       \/ /\ Files[p].kind = "dir"
          /\ IF c.showDir THEN p \in Unreadable
             ELSE \/ ~Exists(Append(p, "index.html"))
                  \/ Files[Append(p, "index.html")].kind # "file"

\* C13: a request that passes steps 1-4 and whose path is not servable is,
\* with a proxy target configured, forwarded to the upstream once and, when
\* the upstream answers, answered with the upstream's status and body;
\* without a proxy target it is answered 404 and nothing is forwarded.
C13_ProxyFallbackOr404 ==
    Responded /\ PassesSteps1to4(cfg, req) /\ NotServable(cfg, req) =>
        IF cfg.proxy # ""
        THEN /\ Len(sent) = 1 /\ sent[1].pathname = req.pathname
             /\ received[1].ok =>
                    /\ resp.status = received[1].resp.status
                    /\ resp.body = received[1].resp.body
        ELSE resp.status = 404 /\ sent = <<>>

\* C14: when the upstream call of handleProxy fails at the network level the
\* response is 502 "Proxy Error", with nothing of the error in it.
C14_UpstreamFailureIs502 ==
    Responded /\ received # <<>> /\ ~received[1].ok =>
        /\ resp.status = 502
        /\ resp.body = Text("Proxy Error")
        /\ resp.headers \subseteq {h \in PreflightHeaders : h[1] # "Access-Control-Max-Age"}
        /\ cfg.cors <=> HasHeader(resp, "Access-Control-Allow-Origin")

\* a request for a missing path is forwarded, the upstream cannot be reached
\* and the answer is 502
C14_Witness ==
    /\ Responded
    /\ cfg.proxy # "" /\ req.pathname = <<"nope">>
    /\ Len(sent) = 1 /\ ~received[1].ok
    /\ resp.status = 502

\* how many times call occurs in calls
Count(calls, call) == Cardinality({i \in 1..Len(calls) : calls[i] = call})

\* C15: for every request handleProxy is invoked at most once and the
\* upstream is contacted at most once, and one response is returned.
C15_NoRetries ==
    Responded =>
        /\ Count(fx, "handleProxy") <= 1
        /\ Count(fx, "upstream") <= 1
        /\ Len(sent) <= 1
        /\ resp # NoResponse

\* socket "client" or "target" of session s, which exists, is closed
Closed(s, socket) == s \in DOMAIN relay /\ relay[s][socket] = "closed"

\* session s exists and no upstream socket was created for it
NoTarget(s) == s \in DOMAIN relay /\ relay[s].target = "none"

\* the upstream socket of session s, which exists, failed to open
DialFailed(s) == s \in DOMAIN relay /\ relay[s].dial = "failed"

\* C16: in every relay session, once the upstream socket is closed (it
\* closed, broke or could not connect) the client socket is eventually
\* closed, and once the client socket is closed the upstream socket, if one
\* was created, is eventually closed: no session stays with one socket
\* closed and the other open.
C16_ClosePropagates ==
    \A s \in Sessions :
        /\ Closed(s, "target") ~> Closed(s, "client")
        /\ Closed(s, "client") ~> (NoTarget(s) \/ Closed(s, "target"))

\* the client closed before the upstream socket had opened, and both
\* sockets are closed
C16_Witness ==
    /\ relay # <<>>
    /\ relay[1].closedBy = "client" /\ relay[1].dial = "aborted"
    /\ relay[1].client = "closed" /\ relay[1].target = "closed"

\* C17: when the upstream socket of a session fails to open (new WebSocket
\* raises, or the connection attempt fails), no message of the session is
\* relayed in either direction, the client socket is closed by the handler
\* that learns of the failure, and it ends closed.
C17_DialFailureClosesClient ==
    /\ [](\A s \in Sessions :
            DialFailed(s) =>
                /\ relay[s].toTarget = <<>> /\ relay[s].toClient = <<>>
                /\ relay[s].targetWs = "null" \/ relay[s].closeEvent = "done" =>
                       relay[s].client # "open")
    /\ \A s \in Sessions : DialFailed(s) ~> Closed(s, "client")

\* new WebSocket raised for the target, nothing was relayed and the client
\* socket is closed
C17_Witness ==
    /\ cfg.wsproxy \in InvalidUrls
    /\ relay # <<>>
    /\ relay[1].dial = "failed" /\ relay[1].targetWs = "null"
    /\ relay[1].client = "closed" /\ relay[1].closedBy = "server"

\* C18: no message is lost while the client socket is open and the upstream
\* socket is connecting or open.
C18_NoMessageDropped ==
    \A s \in DOMAIN relay : \A i \in 1..Len(relay[s].lost) :
        ~(/\ relay[s].lost[i].client = "open"
          /\ relay[s].lost[i].target \in {"connecting", "open"})

\* the steps by which session s learns that its upstream socket is gone
TargetGone(s) ==
    TargetDialFails(s) \/ TargetClosed(s) \/ TargetCloseCompletes(s) \/ TargetOnClose(s)

\* C19: the server closes the client socket of a session only when that
\* session's own upstream socket failed to open or closed; and a failure or
\* close of the upstream socket of one session changes nothing of the other
\* sessions nor of the request dispatcher.
C19_SessionsIsolated ==
    /\ [](\A s \in DOMAIN relay :
            relay[s].closedBy = "server" =>
                relay[s].dial = "failed" \/ relay[s].closeEvent = "done")
    /\ [][\A s \in Sessions :
            TargetGone(s) =>
                /\ \A t \in DOMAIN relay \ {s} : relay'[t] = relay[t]
                /\ UNCHANGED httpVars]_vars

\* the upstream of session 1 could not be reached and its client socket was
\* closed, while session 2 goes on with both sockets open
C19_Witness ==
    /\ Len(relay) = 2
    /\ relay[1].dial = "failed" /\ relay[1].closedBy = "server"
    /\ relay[1].client = "closed"
    /\ relay[2].client = "open" /\ relay[2].target = "open"

\* the server was started from a command line that leaves showDir unset and
\* turns autoIndex off
ListingDisabledBy(c) ==
    \E o \in DispatchOptions :
        ~o.showDir /\ ~o.autoIndex /\ c = Constructor(o, DefaultEnv)

\* the path of the request resolves to a directory
ResolvesToDirectory(c, r) ==
    /\ \A i \in 1..Len(r.pathname) : ~DecodeThrows(r.pathname[i])
    /\ LET p == ResolvePath(c, DecodeURIComponent(r.pathname)) IN
       Exists(p) /\ Files[p].kind = "dir"

\* C20: a server started with showDir unset and autoIndex turned off answers
\* a request that passes steps 1-4 and resolves to a directory with 403
\* "Directory listing not allowed".
C20_ListingDisabledIs403 ==
    Responded /\ ResolvesToDirectory(cfg, req) /\ PassesSteps1to4(cfg, req)
              /\ ListingDisabledBy(cfg) =>
        /\ resp.status = 403
        /\ resp.body = Text("Directory listing not allowed")

\* the directory the request resolves to, in auto-index mode, has no
\* index.html
DirectoryWithoutIndex(c, r) ==
    /\ ~c.showDir /\ c.autoIndex
    /\ ResolvesToDirectory(c, r)
    /\ ~Exists(Append(ResolvePath(c, DecodeURIComponent(r.pathname)), "index.html"))

\* C21: in auto-index mode a request that passes steps 1-4 and resolves to a
\* directory without index.html is forwarded when a proxy target is
\* configured and is otherwise answered 404 "index.html not found".
C21_MissingIndexIsDistinct404 ==
    Responded /\ PassesSteps1to4(cfg, req) /\ DirectoryWithoutIndex(cfg, req) =>
        IF cfg.proxy # ""
        THEN Len(sent) = 1 /\ Has(fx, "handleProxy")
        ELSE resp.status = 404 /\ resp.body = Text("index.html not found")

\* C22: with a proxy target configured, a request that passes steps 1-4 and
\* whose path is not servable (missing file, missing index.html, directory
\* read failure) is passed to handleProxy and forwarded, whatever is then
\* returned; none is answered 404 or 500 without that.
C22_ProxyTriedBeforeError ==
    Responded /\ cfg.proxy # "" /\ PassesSteps1to4(cfg, req) /\ NotServable(cfg, req) =>
        /\ Has(fx, "handleProxy")
        /\ Len(sent) = 1

\* the regular file inside the base directory the request resolves to,
\* itself or as the index.html of the directory it names; <<>> if none
ServedFile(c, r) ==
    IF \E i \in 1..Len(r.pathname) : DecodeThrows(r.pathname[i]) THEN <<>>
    ELSE LET p == ResolvePath(c, DecodeURIComponent(r.pathname))
             index == Append(p, "index.html")
         IN  IF ~Exists(p) \/ ~InBaseDir(c, p) THEN <<>>
             ELSE IF Files[p].kind = "file" THEN p
             ELSE IF /\ Files[p].kind = "dir" /\ ~c.showDir /\ c.autoIndex
                     /\ Exists(index) /\ Files[index].kind = "file"
                  THEN index
             ELSE <<>>

\* C25: a request that passes steps 1-4 and resolves to a regular file inside
\* the base directory, itself or as the index.html auto-index chooses, is
\* answered with that file, a Content-Length of its size, a Last-Modified of
\* its modification time and a Content-Type.
C25_FileHeaders ==
    Responded /\ PassesSteps1to4(cfg, req) /\ ServedFile(cfg, req) # <<>> =>
        LET file == ServedFile(cfg, req) IN
        /\ resp.status = 200
        /\ resp.body = <<"file">> \o file
        /\ <<"Content-Length", ToString(Files[file].size)>> \in resp.headers
        /\ <<"Last-Modified", Files[file].mtime>> \in resp.headers
        /\ HeaderGet(resp.headers, "Content-Type") # ""

\* TLS is enabled and the certificate or the key is not given or cannot be
\* read
TlsWithoutPair(c) ==
    c.tls /\ (c.tlsCert \notin ReadableFiles \/ c.tlsKey \notin ReadableFiles)

\* C23: with TLS enabled and the certificate or the key missing or
\* unreadable the server never serves: start fails and no request is handled.
C23_TlsNeedsReadablePair ==
    TlsWithoutPair(cfg) =>
        /\ phase \in {"constructed", "failed"}
        /\ req = NoRequest /\ resp = NoResponse /\ stdout = <<>>

\* TLS was enabled with a certificate file that cannot be read and a
\* readable key, and start failed
C23_Witness ==
    /\ phase = "failed"
    /\ cfg.tls /\ cfg.tlsCert = "missing.pem" /\ cfg.tlsKey = "key.pem"

\* C24: without the port flag the listen port is process.env.PORT if set,
\* else process.env.NODE_PORT if set, else "3000".
C24_PortFromEnvironment ==
    ~HasFlag(launch.argv, "port") =>
        cfg.port = OrElse(launch.env.PORT, OrElse(launch.env.NODE_PORT, "3000"))

\* C26: every forwarded request carries as X-Forwarded-For the one value
\* that is the request's X-Forwarded-For if it has one, else its X-Real-Ip if
\* it has one, else "unknown", and as Host the authority of the proxy target.
C26_ForwardedForAndHost ==
    Responded /\ sent # <<>> =>
        /\ Len(sent) = 1
        /\ sent[1].xff = IF req.xff # "" THEN req.xff
                         ELSE IF req.xrealip # "" THEN req.xrealip
                         ELSE "unknown"
        /\ cfg.proxy = "http://up" => sent[1].host = "up"

\* a request with both headers was forwarded with its own X-Forwarded-For
\* chain, nothing appended
C26_Witness ==
    /\ Responded /\ Len(sent) = 1
    /\ req.xff = "1.1.1.1, 2.2.2.2" /\ req.xrealip = "3.3.3.3"
    /\ sent[1].xff = "1.1.1.1, 2.2.2.2" /\ sent[1].host = "up"

C28_ListingRows ==
    Responded /\ cfg.showDir /\ PassesSteps1to4(cfg, req) /\ req.pathname = <<>> =>
        /\ resp.status = 200
        /\ resp.body =
              IF cfg.noDotfiles
              THEN <<"listing", "a.txt", "docs", "empty", "fifo", "locked", "odd">>
              ELSE <<"listing", ".hidden", "a.txt", "docs", "empty", "fifo", "locked", "odd">>

\* the base directory was listed with noDotfiles set, without .hidden
C28_Witness ==
    /\ Responded /\ cfg.showDir /\ cfg.noDotfiles /\ req.pathname = <<>>
    /\ resp.body = <<"listing", "a.txt", "docs", "empty", "fifo", "locked", "odd">>

\* C29: with a log file configured, every fetch returns the response of the
\* run in which appendFile succeeds and writes the same entry to stdout; a
\* failed append only leaves the log file without the entry and a
\* diagnostic on stderr.
C29_LogFailureNotFatal ==
    Responded /\ cfg.logpath # "" =>
        \E e \in Environments(cfg) :
            LET o == FetchOutcome(cfg, req, e) IN
            /\ e.appendOk
            /\ o.resp = resp /\ o.stdout = stdout /\ o.sent = sent
            /\ \/ logfile = o.logfile /\ stderr = o.stderr
               \/ /\ o.logfile # <<>> /\ logfile = <<>>
                  /\ stderr = o.stderr \o <<"Failed to write to log file">>

\* the append to the log file failed and the file was served all the same
C29_Witness ==
    /\ Responded /\ cfg.logpath # ""
    /\ stderr = <<"Failed to write to log file">> /\ logfile = <<>>
    /\ Len(stdout) = 1 /\ req.pathname = <<"a.txt">> /\ resp.status = 200

\* C30: formatSize stops dividing below 1024 or at TB: the loop never runs
\* more than 4 times, the unit of the result is the one of index min(4, k)
\* where k is the number of divisions by 1024 that bring the count below
\* 1024, and 0 gives "0.0 B", 1536 "1.5 KB" and 1048576 "1.0 MB".
C30_FormatSizeUnits ==
    /\ fmt # <<>> => fmt.divisions <= 4
    /\ fmt # <<>> /\ fmt.pc = "done" =>
        LET k == Len(fmt.bytes) - 1
        IN  /\ fmt.divisions = IF k < 4 THEN k ELSE 4
            /\ fmt.out[3] = <<"B", "KB", "MB", "GB", "TB">>[fmt.divisions + 1]
            /\ fmt.bytes = <<0>> => fmt.out = <<0, 0, "B">>
            /\ fmt.bytes = <<512, 1>> => fmt.out = <<1, 5, "KB">>
            /\ fmt.bytes = <<0, 0, 1>> => fmt.out = <<1, 0, "MB">>

\* a count of 1024 terabytes was formatted: four divisions, "1024.0 TB"
C30_Witness ==
    /\ fmt # <<>> /\ fmt.pc = "done" /\ fmt.bytes = <<0, 0, 0, 0, 0, 1>>
    /\ fmt.divisions = 4 /\ fmt.out = <<1024, 0, "TB">>

\* C31: every call of fetch returns a response, whatever the request, the
\* configuration and the outcome of the upgrade, file system and upstream
\* calls: no call ends in an exception or without a response.
C31_FetchAlwaysResponds ==
    Responded => resp # NoResponse /\ resp.status \in 100..599

\* a path with malformed percent-encoding, no proxy: decodeURIComponent
\* raised and the request was answered 404
C31_Witness ==
    /\ Responded /\ req.pathname = <<"%">> /\ cfg.proxy = ""
    /\ Has(fx, "auth") /\ resp.status = 404 /\ resp.body = <<"text", "Not Found">>

\* C32: with noDotfiles set no response is the content of a file of the base
\* directory whose name starts with ".".
C32_DotfilesNotServed ==
    Responded /\ cfg.noDotfiles /\ resp.body[1] = "file" =>
        resp.body # <<"file", "srv", ".hidden">>

\* C33: the upstream socket of a session is opened at the WebSocket proxy
\* target followed by the pathname of the upgrade request and nothing else:
\* the pathname kept in the session is that of the request, and the query
\* string of the request is no part of the URL.
C33_UpstreamUrlIsTargetPlusPath ==
    \A s \in DOMAIN relay :
        /\ relay[s].pathname = relay[s].request.pathname
        /\ relay[s].targetWs = "ws" =>
            /\ relay[s].url = <<cfg.wsproxy>> \o relay[s].request.pathname
            /\ \A i \in DOMAIN relay[s].url : relay[s].url[i] # "?room=1"

\* an upgrade request with a query string had its upstream socket opened
C33_Witness ==
    \E s \in DOMAIN relay :
        /\ relay[s].request = [pathname |-> <<"chat">>, search |-> "?room=1"]
        /\ relay[s].target = "open"
        /\ relay[s].url = <<"ws://up", "chat">>

\* C34: the upstream field of every access log entry is the upstream
\* address when the request was forwarded to the upstream, and "-" when it
\* was served or rejected locally.
C34_UpstreamFieldTracksForwarding ==
    Responded =>
        \A i \in DOMAIN stdout :
            stdout[i].upstream_addr = IF sent # <<>> THEN cfg.proxy ELSE "-"

\* C35: no handler passes a message to the send of a socket that is closed
\* already: the "message" listener of the upstream socket does not call
\* ws.send once the client socket is closed, and the message handler does
\* not call targetWs.send once the upstream socket is closed.  (The lost
\* messages of a session with an upstream socket are those passed to send
\* while the receiving socket was not open.)
C35_NoSendOnClosedSocket ==
    \A s \in DOMAIN relay :
        \A i \in DOMAIN relay[s].lost :
            LET l == relay[s].lost[i] IN
            /\ l.message[1] = "upstream" => l.client # "closed"
            /\ l.message[1] = "client" /\ relay[s].targetWs = "ws" => l.target # "closed"

\* one of the two sockets of session s, which exists, is closing or closed
CloseBegun(s) ==
    /\ s \in DOMAIN relay
    /\ relay[s].client \in {"closing", "closed"} \/ relay[s].target \in {"closing", "closed"}

\* session s is at rest: both sockets closed (the upstream one, if one was
\* created), every event handled
Quiescent(s) ==
    /\ s \in DOMAIN relay
    /\ relay[s].client = "closed"
    /\ relay[s].targetWs = "null" \/ (relay[s].target = "closed" /\ relay[s].closeEvent = "done")
    /\ relay[s].inbox = <<>> /\ relay[s].targetInbox = <<>>

\* C36: close propagation ends: in a session ws.close() and targetWs.close()
\* are each called at most once, a session in which a socket closes comes to
\* rest with both sockets closed, and at rest no handler of it runs again.
C36_ClosePropagationTerminates ==
    /\ [](\A s \in DOMAIN relay : relay[s].wsCloses <= 1 /\ relay[s].targetCloses <= 1)
    /\ \A s \in Sessions : CloseBegun(s) ~> Quiescent(s)
    /\ [][\A s \in DOMAIN relay : Quiescent(s) => relay'[s] = relay[s]]_vars

\* the upstream closed first: its listener closed the client, the close
\* handler called close on the closed upstream socket, and the session rests
C36_Witness ==
    /\ relay # <<>> /\ Quiescent(1)
    /\ relay[1].closedBy = "server" /\ relay[1].dial = "opened"
    /\ relay[1].wsCloses = 1 /\ relay[1].targetCloses = 1

====
